---- MODULE Spec2Model ----
(***************************************************************************)
(* Model of lectures/model.py: LectureResource, LectureNotes, Lecture and  *)
(* LectureGroup, and the renderers to_rst / to_models.                     *)
(*                                                                         *)
(* Python values are represented as follows.                               *)
(*   str            a sequence of one-character strings, "" is << >>       *)
(*   Optional[X]    None is << >>, a value x is << x >>                    *)
(*   object         a record with a cls field naming its class             *)
(*   call outcome   [ok |-> TRUE, val |-> v] for a return,                 *)
(*                  [ok |-> FALSE, exc |-> e] for a raised exception       *)
(***************************************************************************)
EXTENDS Integers, Sequences, FiniteSets, TLC

VARIABLES group, notes, resource, result

vars == <<group, notes, resource, result>>

(***************************************************************************)
(* Bounds of the model.                                                    *)
(***************************************************************************)
\* total number of LectureResource entries of a group (global + lectures)
MaxEntries == 3
\* number of lectures of a group
MaxLectures == 2
\* number of items (at all depths) of a LectureNotes
MaxNodes == 4

(***************************************************************************)
(* Python built-ins.                                                       *)
(***************************************************************************)
None == << >>

\* the character U+0060 (a backtick), which a TLA+ string cannot hold
Backtick == "backtick"

Some(x) == << x >>

IsNone(o) == Len(o) = 0

Value(o) == o[1]

Return(v) == [ok |-> TRUE, val |-> v]

Raise(e) == [ok |-> FALSE, exc |-> e]

RECURSIVE Concat(_)
\* "".join(parts)
Concat(parts) ==
    IF parts = << >> THEN << >> ELSE Head(parts) \o Concat(Tail(parts))

RECURSIVE Join(_, _)
\* sep.join(parts)
Join(sep, parts) ==
    IF Len(parts) = 0 THEN << >>
    ELSE IF Len(parts) = 1 THEN parts[1]
    ELSE parts[1] \o sep \o Join(sep, Tail(parts))

Digit(d) == <<"0", "1", "2", "3", "4", "5", "6", "7", "8", "9">>[d + 1]

RECURSIVE IntStr(_)
\* str(n) for a non-negative int
IntStr(n) == IF n < 10 THEN <<Digit(n)>> ELSE IntStr(n \div 10) \o <<Digit(n % 10)>>

\* n as two characters, padded on the left with pad
Pad2(n, pad) == IF n < 10 THEN <<pad, Digit(n)>> ELSE IntStr(n)

MonthName(m) ==
    << <<"J","a","n","u","a","r","y">>,
       <<"F","e","b","r","u","a","r","y">>,
       <<"M","a","r","c","h">>,
       <<"A","p","r","i","l">>,
       <<"M","a","y">>,
       <<"J","u","n","e">>,
       <<"J","u","l","y">>,
       <<"A","u","g","u","s","t">>,
       <<"S","e","p","t","e","m","b","e","r">>,
       <<"O","c","t","o","b","e","r">>,
       <<"N","o","v","e","m","b","e","r">>,
       <<"D","e","c","e","m","b","e","r">> >>[m]

\* the hour of the 12-hour clock
Hour12(h) == IF h % 12 = 0 THEN 12 ELSE h % 12

\* one strftime directive
Directive(dt, c) ==
    CASE c = "B" -> MonthName(dt.month)
      [] c = "e" -> Pad2(dt.day, " ")
      [] c = "l" -> Pad2(Hour12(dt.hour), " ")
      [] c = "M" -> Pad2(dt.minute, "0")
      [] c = "p" -> IF dt.hour < 12 THEN <<"A", "M">> ELSE <<"P", "M">>
      [] OTHER -> <<"%", c>>

RECURSIVE strftime(_, _)
\* datetime.strftime(fmt)
strftime(dt, fmt) ==
    IF fmt = << >> THEN << >>
    ELSE IF Head(fmt) = "%" /\ Len(fmt) >= 2
         THEN Directive(dt, fmt[2]) \o strftime(dt, Tail(Tail(fmt)))
         ELSE <<Head(fmt)>> \o strftime(dt, Tail(fmt))

(***************************************************************************)
(* LectureResource                                                         *)
(***************************************************************************)
\* the default of the datetime_fmt field: "%B%e, %l:%M %p"
DefaultDatetimeFmt ==
    <<"%","B","%","e",","," ","%","l",":","%","M"," ","%","p">>

LectureResource(name, static_url, external_url, updated, index, datetime_fmt) ==
    [cls |-> "LectureResource", name |-> name, static_url |-> static_url,
     external_url |-> external_url, updated |-> updated, index |-> index,
     datetime_fmt |-> datetime_fmt]

\* getattr succeeds for the three compared attributes
HasEqAttributes(other) ==
    {"name", "static_url", "external_url"} \subseteq DOMAIN other

\* LectureResource.__eq__, comparing name only
LectureResource_eq_NameOnly(self, other) ==
    IF HasEqAttributes(other) THEN self.name = other.name ELSE FALSE

\* the __eq__ a dataclass generates when none is written: every field counts
LectureResource_eq_AllFields(self, other) ==
    IF HasEqAttributes(other) /\ other.cls = "LectureResource"
    THEN /\ self.name = other.name
         /\ self.static_url = other.static_url
         /\ self.external_url = other.external_url
         /\ self.updated = other.updated
         /\ self.index = other.index
         /\ self.datetime_fmt = other.datetime_fmt
    ELSE FALSE

\* LectureResource.__eq__
LectureResource_eq(self, other) ==
    IF HasEqAttributes(other)
    THEN /\ self.name = other.name
         /\ self.static_url = other.static_url
         /\ self.external_url = other.external_url
    ELSE FALSE

\* "/_static/"
StaticPrefix == <<"/", "_", "s", "t", "a", "t", "i", "c", "/">>

\* LectureResource.url, looking at external_url first
LectureResource_url_ExternalFirst(self) ==
    IF ~IsNone(self.external_url) THEN Some(Value(self.external_url))
    ELSE IF ~IsNone(self.static_url) THEN Some(StaticPrefix \o Value(self.static_url))
    ELSE None

\* LectureResource.url
LectureResource_url(self) ==
    IF ~IsNone(self.static_url) THEN Some(StaticPrefix \o Value(self.static_url))
    ELSE IF ~IsNone(self.external_url) THEN Some(Value(self.external_url))
    ELSE None

\* the test "if self.index is not None" written "if self.index"
ShowsIndex_Truthy(self) == ~IsNone(self.index) /\ Value(self.index) # 0

\* self.index is not None
ShowsIndex(self) == ~IsNone(self.index)

\* " (updated "
UpdatedPrefix == <<" ", "(", "u", "p", "d", "a", "t", "e", "d", " ">>

\* f" (updated {self.updated.strftime(self.datetime_fmt)})"
UpdatedSuffix(self) ==
    UpdatedPrefix \o strftime(Value(self.updated), self.datetime_fmt) \o <<")">>

\* LectureResource.display_name
LectureResource_display_name(self) ==
    (IF ShowsIndex(self) THEN IntStr(Value(self.index)) \o <<" ">> ELSE << >>)
    \o self.name
    \o (IF ~IsNone(self.updated) THEN UpdatedSuffix(self) ELSE << >>)

\* f"{self.url}"
UrlText(self) ==
    IF IsNone(LectureResource_url(self)) THEN <<"N", "o", "n", "e">>
    ELSE Value(LectureResource_url(self))

\* the link target written by a renderer that reads static_url, not url
LinkTarget_StaticUrl(self) ==
    IF IsNone(self.static_url) THEN UrlText(self) ELSE Value(self.static_url)

\* the link target of both renderers: {self.url}
LinkTarget(self) == UrlText(self)

\* the text that ends both renderers: a newline and the 8 spaces before the
\* closing quotes
RstTail == <<"\n", " ", " ", " ", " ", " ", " ", " ", " ">>

\* LectureResource._to_download_rst
LectureResource_to_download_rst(self) ==
    <<"\n", "-", " ", ":", "d", "o", "w", "n", "l", "o", "a", "d", ":", Backtick>>
    \o LectureResource_display_name(self) \o <<" ", "<">> \o LinkTarget(self)
    \o <<">", Backtick>> \o RstTail

\* LectureResource._to_external_link_rst
LectureResource_to_external_link_rst(self) ==
    <<"\n", "-", " ", Backtick>>
    \o LectureResource_display_name(self) \o <<" ", "<">> \o LinkTarget(self)
    \o <<">", Backtick, "_">> \o RstTail

\* LectureResource.to_rst
LectureResource_to_rst(self) ==
    IF ~IsNone(self.static_url) THEN Return(LectureResource_to_download_rst(self))
    ELSE IF ~IsNone(self.external_url)
         THEN Return(LectureResource_to_external_link_rst(self))
    ELSE Raise("ValueError")

(***************************************************************************)
(* Lecture and LectureGroup                                                *)
(***************************************************************************)
Lecture(title, week_covered, lecture_notes, youtube_id, resources) ==
    [cls |-> "Lecture", title |-> title, week_covered |-> week_covered,
     notes |-> lecture_notes, youtube_id |-> youtube_id, resources |-> resources]

LectureGroup(title, description, lectures, order, global_resources) ==
    [cls |-> "LectureGroup", title |-> title, description |-> description,
     lectures |-> lectures, order |-> order, global_resources |-> global_resources]

\* resource in resources
Contains(resources, res) ==
    \E i \in 1..Len(resources) : LectureResource_eq(resources[i], res)

\* the step of the loop that lets a later equal resource replace the earlier
AppendIfNew_KeepLast(resources, res) ==
    IF ~Contains(resources, res) THEN Append(resources, res)
    ELSE [i \in 1..Len(resources) |->
              IF LectureResource_eq(resources[i], res) THEN res ELSE resources[i]]

\* if resource not in resources: resources.append(resource)
AppendIfNew(resources, res) ==
    IF ~Contains(resources, res) THEN Append(resources, res) ELSE resources

RECURSIVE AddResources(_, _)
\* for resource in lecture.resources: ...
AddResources(resources, more) ==
    IF more = << >> THEN resources
    ELSE AddResources(AppendIfNew(resources, Head(more)), Tail(more))

\* the truth value of lecture.resources: false for None and for an empty sequence
ResourcesTruthy(lecture) ==
    ~IsNone(lecture.resources) /\ Len(Value(lecture.resources)) > 0

RECURSIVE AddLectures(_, _)
\* for lecture in self: if lecture.resources: ...
AddLectures(resources, lectures) ==
    IF lectures = << >> THEN resources
    ELSE AddLectures(
             IF ResourcesTruthy(Head(lectures))
             THEN AddResources(resources, Value(Head(lectures).resources))
             ELSE resources,
             Tail(lectures))

\* resources = [], dropping the global resources
StartEmpty(self) == << >>

\* resources = list(self.global_resources)
StartResources(self) == self.global_resources

\* LectureGroup.resources
LectureGroup_resources(self) == AddLectures(StartResources(self), self.lectures)

\* the group after the property, had it been written
\* "resources = self.global_resources": the appends of the loop land in the
\* group's own list
GroupAfterResources_Aliased(self) ==
    [self EXCEPT !.global_resources = LectureGroup_resources(self)]

\* the group after the property has run: list(self.global_resources) is a new
\* list, the loop appends to it alone and nothing of self is assigned
GroupAfterResources(self) == self

(***************************************************************************)
(* LectureNotes and the items it holds.  An item is an object: a str       *)
(* (cls "str", its characters in val), a list or tuple (its elements in    *)
(* items), an int, an Equation, a LectureResource or a nested LectureNotes.*)
(***************************************************************************)
LectureNotes(items, title) ==
    [cls |-> "LectureNotes", items |-> items, title |-> title]

PyStr(chars) == [cls |-> "str", val |-> chars]

PyList(items) == [cls |-> "list", items |-> items]

PyInt(n) == [cls |-> "int", int |-> n]

Equation(latex) == [cls |-> "Equation", latex |-> latex]

\* isinstance(item, str)
IsStr(item) == item.cls = "str"

\* isinstance(item, (list, tuple))
IsListOrTuple(item) == item.cls \in {"list", "tuple"}

\* isinstance(item, self.__class__), self being a LectureNotes
IsLectureNotes(item) == item.cls = "LectureNotes"

\* hasattr(item, 'to_rst'): the Serializable classes, LectureNotes, LectureResource
HasToRst(item) == item.cls \in {"Equation", "Link", "LectureNotes", "LectureResource"}

\* hasattr(item, 'to_pyexlatex'): the Serializable classes
HasToPyexlatex(item) == item.cls \in {"Equation", "Link"}

\* Equation.to_rst: the latex source between :math: and a pair of backticks
Equation_to_rst(self) == <<":", "m", "a", "t", "h", ":", Backtick>> \o self.latex \o <<Backtick>>

\* Equation.to_pyexlatex: pl.Equation(str_eq=self.latex)
Equation_to_pyexlatex(self) == [cls |-> "pl.Equation", str_eq |-> self.latex]

\* the else branch of to_rst_bullet_content, skipping the item silently
Unserializable_Skip(item) == Return(<< >>)

\* raise ValueError(f'could not serialize {item} of type {type(item)} to rst')
Unserializable(item) == Raise("ValueError")

\* itertools.chain(*lists), not joined
JoinSubItems_NoJoin(lists) == Concat(lists)

\* [' '.join(itertools.chain(*lists))]
JoinSubItems(lists) == <<Join(<<" ">>, Concat(lists))>>

\* f'- {line}'
BulletLine(line) == <<"-", " ">> \o line

\* "\n" + "\n".join([f'- {line}' for line in lines]) + "\n"
FormatBullets(lines) ==
    <<"\n">> \o Join(<<"\n">>, [i \in 1..Len(lines) |-> BulletLine(lines[i])]) \o <<"\n">>

RECURSIVE to_rst_bullet_content(_)
RECURSIVE LectureNotes_to_rst(_)
RECURSIVE BulletContents(_)

\* [to_rst_bullet_content(item) for item in items], evaluated left to right:
\* the list of the results, or the first exception raised
BulletContents(items) ==
    IF items = << >> THEN Return(<< >>)
    ELSE LET first == to_rst_bullet_content(Head(items))
         IN  IF ~first.ok THEN first
             ELSE LET rest == BulletContents(Tail(items))
                  IN  IF ~rest.ok THEN rest
                      ELSE Return(<<first.val>> \o rest.val)

\* item.to_rst() of an object exposing to_rst
ItemToRst(item) ==
    CASE item.cls = "LectureNotes" -> LectureNotes_to_rst(item)
      [] item.cls = "Equation" -> Return(Equation_to_rst(item))
      [] item.cls = "LectureResource" -> LectureResource_to_rst(item)

to_rst_bullet_content(item) ==
    IF IsStr(item) THEN Return(<<item.val>>)
    ELSE IF IsListOrTuple(item)
         THEN LET subs == BulletContents(item.items)
              IN  IF subs.ok THEN Return(JoinSubItems(subs.val)) ELSE subs
    ELSE IF HasToRst(item)
         THEN LET r == ItemToRst(item)
              IN  IF r.ok THEN Return(<<r.val>>) ELSE r
    ELSE Unserializable(item)

\* LectureNotes.to_rst
LectureNotes_to_rst(self) ==
    LET contents == BulletContents(self.items)
    IN  IF contents.ok THEN Return(FormatBullets(Concat(contents.val)))
        ELSE contents

\* item.to_pyexlatex() of an object exposing to_pyexlatex
to_pyexlatex(item) ==
    CASE item.cls = "Equation" -> Equation_to_pyexlatex(item)

\* model(contents) and model(contents, title=title): an object of the document
\* model library; it is no str and exposes no to_pyexlatex
Construct(model, contents, title) ==
    [cls |-> model, contents |-> contents, title |-> title]

\* the state of the collecting loop before its first item
NoRuns == [final_items |-> << >>, current_str_items |-> << >>]

\* the end of a run, appending the group without looking whether it is empty
FlushRun_Unguarded(st, sub_model) ==
    [final_items |-> Append(st.final_items,
                            Construct(sub_model, st.current_str_items, None)),
     current_str_items |-> << >>]

\* if current_str_items: final_items.append(sub_model(current_str_items));
\*                       current_str_items = []
FlushRun(st, sub_model) ==
    IF st.current_str_items # << >>
    THEN [final_items |-> Append(st.final_items,
                                 Construct(sub_model, st.current_str_items, None)),
          current_str_items |-> << >>]
    ELSE st

\* the body of the collecting loop, for one item
CollectStep(st, item, sub_model) ==
    IF IsStr(item)
    THEN [st EXCEPT !.current_str_items = Append(@, item)]
    ELSE IF HasToPyexlatex(item)
         THEN [st EXCEPT !.current_str_items = Append(@, to_pyexlatex(item))]
    ELSE LET ended == FlushRun(st, sub_model)
         IN  [ended EXCEPT !.final_items = Append(@, item)]

RECURSIVE Collect(_, _, _)
\* for item in items: ... (the collecting loop)
Collect(st, items, sub_model) ==
    IF items = << >> THEN st
    ELSE Collect(CollectStep(st, Head(items), sub_model), Tail(items), sub_model)

\* the end of the collecting loop, forgetting the run left over
FinishRuns_DropTrailing(st, sub_model) == st.final_items

\* if current_str_items: final_items.append(sub_model(current_str_items))
FinishRuns(st, sub_model) == FlushRun(st, sub_model).final_items

RECURSIVE LectureNotes_to_models(_, _, _)
\* the first loop written item.to_models(sub_model=sub_model): the nested
\* note is built with the default top model, pl.Section
ConvertNested_DefaultTop(items, sub_model) ==
    [i \in 1..Len(items) |->
        IF IsLectureNotes(items[i])
        THEN LectureNotes_to_models(items[i], Some("pl.Section"), sub_model)
        ELSE items[i]]

\* the first loop of to_models: nested notes are converted, other items kept
ConvertNested(items, sub_model) ==
    [i \in 1..Len(items) |->
        IF IsLectureNotes(items[i])
        THEN LectureNotes_to_models(items[i], Some(sub_model), sub_model)
        ELSE items[i]]

\* LectureNotes.to_models; top_model is Optional
LectureNotes_to_models(self, top_model, sub_model) ==
    LET items == ConvertNested(self.items, sub_model)
        final_items == FinishRuns(Collect(NoRuns, items, sub_model), sub_model)
    IN  IF ~IsNone(top_model)
        THEN Construct(Value(top_model), final_items, Some(self.title))
        ELSE final_items

(***************************************************************************)
(* Lecture and LectureGroup: selection by week                             *)
(***************************************************************************)
\* the test of lectures_for_week written with <= (every week up to week_num)
WeekMatches_UpTo(exc, week_num) == exc.week_covered <= week_num

\* exc.week_covered == week_num
WeekMatches(exc, week_num) == exc.week_covered = week_num

\* LectureGroup.lectures_for_week
LectureGroup_lectures_for_week(self, week_num) ==
    LET Matches(exc) == WeekMatches(exc, week_num)
    IN  SelectSeq(self.lectures, Matches)

(***************************************************************************)
(* Lecture and LectureGroup: rendering                                     *)
(***************************************************************************)
\* build_tools.ext_rst.header_rst(title, level): the header markup of a title
\* at a level, kept as the title between two marks that carry the level
header_rst(title, level) == <<"<header>", Digit(level)>> \o title \o <<"</header>">>

\* "Notes" and "Resources"
NotesWord == <<"N", "o", "t", "e", "s">>

ResourcesWord == <<"R", "e", "s", "o", "u", "r", "c", "e", "s">>

RECURSIVE AllOrFirstRaised(_)
\* the values of a sequence of outcomes evaluated left to right, or the first
\* exception raised among them
AllOrFirstRaised(outcomes) ==
    IF outcomes = << >> THEN Return(<< >>)
    ELSE IF ~Head(outcomes).ok THEN Head(outcomes)
    ELSE LET rest == AllOrFirstRaised(Tail(outcomes))
         IN  IF ~rest.ok THEN rest ELSE Return(<<Head(outcomes).val>> \o rest.val)

\* the test of _youtube_rst written "if self.youtube_id"
HasVideo_Truthy(self) == ~IsNone(self.youtube_id) /\ Value(self.youtube_id) # << >>

\* self.youtube_id is not None
HasVideo(self) == ~IsNone(self.youtube_id)

\* the youtube directive up to the id
YoutubeHead ==
    <<"\n", ".", ".", " ", "y", "o", "u", "t", "u", "b", "e", ":", ":", " ">>

\* the options of the youtube directive, the "|" line and the spaces before
\* the closing quotes
YoutubeTail ==
    <<"\n", " ", " ", " ", " ", ":", "h", "e", "i", "g", "h", "t", ":", " ",
      "3", "1", "5", "\n", " ", " ", " ", " ", ":", "w", "i", "d", "t", "h",
      ":", " ", "5", "6", "0", "\n", " ", " ", " ", " ", ":", "a", "l", "i",
      "g", "n", ":", " ", "c", "e", "n", "t", "e", "r", "\n", "\n", "|",
      "\n", " ", " ", " ", " ", " ", " ", " ", " ", " ", " ", " ", " ">>

\* Lecture._youtube_rst
Lecture_youtube_rst(self) ==
    IF HasVideo(self) THEN YoutubeHead \o Value(self.youtube_id) \o YoutubeTail
    ELSE << >>

\* Lecture._notes_rst
Lecture_notes_rst(self) ==
    IF ~IsNone(self.notes)
    THEN LET rendered == LectureNotes_to_rst(Value(self.notes))
         IN  IF rendered.ok THEN Return(header_rst(NotesWord, 4) \o rendered.val)
             ELSE rendered
    ELSE Return(<< >>)

\* header_rst('Resources', level) + "\n"
\*     + "\n".join([res.to_rst() for res in resources]) + "\n"
ResourcesSection(resources, level) ==
    LET rendered == AllOrFirstRaised([i \in 1..Len(resources) |->
                                         LectureResource_to_rst(resources[i])])
    IN  IF rendered.ok
        THEN Return(header_rst(ResourcesWord, level) \o <<"\n">>
                    \o Join(<<"\n">>, rendered.val) \o <<"\n">>)
        ELSE rendered

\* Lecture._resources_rst
Lecture_resources_rst(self) ==
    IF ResourcesTruthy(self) THEN ResourcesSection(Value(self.resources), 4)
    ELSE Return(<< >>)

\* Lecture.to_rst
Lecture_to_rst(self) ==
    LET parts == AllOrFirstRaised(<<Return(header_rst(self.title, 3)),
                                    Return(Lecture_youtube_rst(self)),
                                    Lecture_notes_rst(self),
                                    Lecture_resources_rst(self)>>)
    IN  IF parts.ok THEN Return(Concat(parts.val)) ELSE parts

\* mod.notes.to_models(top_model=top_model, sub_model=sub_model): None has no
\* attribute to_models
NotesToModels(mod, top_model, sub_model) ==
    IF IsNone(mod.notes) THEN Raise("AttributeError")
    ELSE Return(LectureNotes_to_models(Value(mod.notes), top_model, sub_model))

\* LectureGroup.to_models
LectureGroup_to_models(self, top_model, sub_model) ==
    AllOrFirstRaised([i \in 1..Len(self.lectures) |->
                         NotesToModels(self.lectures[i], top_model, sub_model)])

\* LectureGroup.to_rst
LectureGroup_to_rst(self) ==
    LET parts ==
            AllOrFirstRaised(
                <<Return(header_rst(self.title, 2)),
                  Return(<<"\n">> \o self.description \o <<"\n">>),
                  IF LectureGroup_resources(self) # << >>
                  THEN ResourcesSection(LectureGroup_resources(self), 3)
                  ELSE Return(<< >>)>>
                \o [i \in 1..Len(self.lectures) |-> Lecture_to_rst(self.lectures[i])])
    IN  IF parts.ok THEN Return(Concat(parts.val)) ELSE parts

\* the group after LectureGroup.to_rst: the resources property is read for the
\* test and, when it is truthy, once more for the join; lecture.to_rst()
\* reads the fields of the lectures and assigns none
GroupAfterToRst(self) ==
    LET tested == GroupAfterResources(self)
    IN  IF LectureGroup_resources(self) # << >> THEN GroupAfterResources(tested)
        ELSE tested

(***************************************************************************)
(* lectures/config.py: get_lecture_groups                                  *)
(***************************************************************************)
\* the LectureGroup a get_..._lecture() function of another module returns
GroupFrom(getter) == [cls |-> "LectureGroup", getter |-> getter]

\* lectures = [get_intro_lecture(), ..., get_visualization_lecture()]
BaseLectureGroups ==
    <<GroupFrom("get_intro_lecture"),
      GroupFrom("get_getting_started_with_python_and_excel_lecture"),
      GroupFrom("get_dynamic_salary_excel_lecture"),
      GroupFrom("get_python_basics_lecture"),
      GroupFrom("get_dynamic_salary_python_lecture"),
      GroupFrom("get_visualization_lecture")>>

\* projects = [get_projects_lecture()]
ProjectGroups == <<GroupFrom("get_projects_lecture")>>

\* lab_exercises = [get_lab_exercises_lecture()]
LabExerciseGroups == <<GroupFrom("get_lab_exercises_lecture")>>

\* get_lecture_groups
get_lecture_groups(include_labs, include_projects) ==
    IF ~include_labs /\ ~include_projects THEN BaseLectureGroups
    ELSE IF ~include_labs THEN BaseLectureGroups \o ProjectGroups
    ELSE BaseLectureGroups \o ProjectGroups \o LabExerciseGroups

(***************************************************************************)
(* Inputs: the groups the model is run on.                                 *)
(***************************************************************************)
StrA == <<"a">>

StrB == <<"b">>

StrX == <<"x">>

StrY == <<"y">>

StrU == <<"u">>

ResA == LectureResource(StrA, Some(StrX), None, None, None, DefaultDatetimeFmt)

\* equal to ResA under __eq__, but another object: it carries an index
ResAIndexed == LectureResource(StrA, Some(StrX), None, None, Some(1), DefaultDatetimeFmt)

\* the name of ResA with another static_url
ResAOther == LectureResource(StrA, Some(StrY), None, None, None, DefaultDatetimeFmt)

ResB == LectureResource(StrB, None, Some(StrU), None, None, DefaultDatetimeFmt)

GroupResourcePool == {ResA, ResAIndexed, ResAOther, ResB}

\* the values of Lecture.resources that hold j entries
ResourceOptions(j) ==
    IF j = 0 THEN {None, Some(<< >>)}
    ELSE {Some(s) : s \in [1..j -> GroupResourcePool]}

RECURSIVE LectureSeqs(_, _)
\* the sequences of at most l lectures that hold at most n resource entries
LectureSeqs(l, n) ==
    IF l = 0 THEN {<< >>}
    ELSE {<< >>} \cup
         UNION {LET rests == LectureSeqs(l - 1, n - j)
                IN  {<<Lecture(StrA, 1, None, None, rs)>> \o rest :
                         rs \in ResourceOptions(j), rest \in rests} :
                j \in 0..n}

\* pl.Section and pl.UnorderedList, the defaults of to_models
Section == "pl.Section"

UnorderedList == "pl.UnorderedList"

EmptyNotes == LectureNotes(<< >>, StrA)

EmptyGroup == LectureGroup(StrA, StrB, << >>, 1, << >>)

NoCall == [op |-> "none", out |-> Return(None)]

(***************************************************************************)
(* The group specification: a group is built, its properties are read.     *)
(***************************************************************************)
Init ==
    /\ \E j \in 0..MaxEntries :
           \E g \in [1..j -> GroupResourcePool] :
               \E lectures \in LectureSeqs(MaxLectures, MaxEntries - j) :
                   group = LectureGroup(StrA, StrB, lectures, 1, g)
    /\ notes = EmptyNotes
    /\ resource = ResA
    /\ result = NoCall

\* reading the property LectureGroup.resources
ReadResources ==
    /\ result' = [op |-> "LectureGroup.resources",
                  out |-> Return(LectureGroup_resources(group))]
    /\ group' = GroupAfterResources(group)
    /\ UNCHANGED <<notes, resource>>

\* get_lecture_groups(include_labs, include_projects)
CallGetLectureGroups ==
    /\ \E include_labs \in BOOLEAN, include_projects \in BOOLEAN :
           result' = [op |-> "get_lecture_groups", include_labs |-> include_labs,
                      include_projects |-> include_projects,
                      out |-> Return(get_lecture_groups(include_labs,
                                                        include_projects))]
    /\ UNCHANGED <<group, notes, resource>>

Next == ReadResources \/ CallGetLectureGroups

Spec == Init /\ [][Next]_vars

(***************************************************************************)
(* The lectures specification: a group of lectures with weeks, videos,     *)
(* notes and resources is built, queried and rendered.                     *)
(***************************************************************************)
\* the notes of a lecture that has them
SomeNotes == Some(LectureNotes(<<PyStr(StrA)>>, <<"T">>))

\* the lectures of the groups: a lecture of week 1 without notes or a lecture
\* of week 2 with notes, with every combination of a youtube id (None, "" or
\* "y") and resources (None, empty or two entries)
LecturePool ==
    {Lecture(StrA, timing.week, timing.notes, youtube_id, resources) :
         timing \in {[week |-> 1, notes |-> None], [week |-> 2, notes |-> SomeNotes]},
         youtube_id \in {None, Some(<< >>), Some(StrY)},
         resources \in {None, Some(<< >>), Some(<<ResA, ResB>>)}}

\* the week numbers asked for: the weeks of the lectures and a week without one
WeeksAsked == {1, 2, 3}

InitLectures ==
    /\ \E n \in 0..MaxLectures :
           \E lectures \in [1..n -> LecturePool] :
               \E g \in {<< >>, <<ResAIndexed>>} :
                   group = LectureGroup(StrA, StrB, lectures, 1, g)
    /\ notes = EmptyNotes
    /\ resource = ResA
    /\ result = NoCall

\* group.lectures_for_week(week_num)
CallLecturesForWeek ==
    /\ \E week_num \in WeeksAsked :
           result' = [op |-> "LectureGroup.lectures_for_week", week_num |-> week_num,
                      out |-> Return(LectureGroup_lectures_for_week(group, week_num))]
    /\ UNCHANGED <<group, notes, resource>>

\* group[i].to_rst(), for a lecture of the group
CallLectureToRst ==
    /\ \E i \in 1..Len(group.lectures) :
           result' = [op |-> "Lecture.to_rst", lecture |-> i,
                      out |-> Lecture_to_rst(group.lectures[i])]
    /\ UNCHANGED <<group, notes, resource>>

\* group.to_models()
CallGroupToModels ==
    /\ result' = [op |-> "LectureGroup.to_models",
                  out |-> LectureGroup_to_models(group, Some(Section), UnorderedList)]
    /\ UNCHANGED <<group, notes, resource>>

\* group.to_rst()
CallGroupToRst ==
    /\ result' = [op |-> "LectureGroup.to_rst", out |-> LectureGroup_to_rst(group)]
    /\ group' = GroupAfterToRst(group)
    /\ UNCHANGED <<notes, resource>>

\* group[i].notes.to_rst(), for a lecture of the group that has notes
CallLectureNotesToRst ==
    /\ \E i \in 1..Len(group.lectures) :
           /\ ~IsNone(group.lectures[i].notes)
           /\ result' = [op |-> "LectureNotes.to_rst", lecture |-> i,
                         out |-> LectureNotes_to_rst(Value(group.lectures[i].notes))]
    /\ UNCHANGED <<group, notes, resource>>

\* group[i].notes.to_models(), for a lecture of the group that has notes
CallLectureNotesToModels ==
    /\ \E i \in 1..Len(group.lectures) :
           /\ ~IsNone(group.lectures[i].notes)
           /\ result' = [op |-> "LectureNotes.to_models", lecture |-> i,
                         out |-> Return(LectureNotes_to_models(
                                            Value(group.lectures[i].notes),
                                            Some(Section), UnorderedList))]
    /\ UNCHANGED <<group, notes, resource>>

NextLectures ==
    \/ CallLecturesForWeek
    \/ CallLectureToRst
    \/ CallGroupToModels
    \/ CallGroupToRst
    \/ ReadResources
    \/ CallLectureNotesToRst
    \/ CallLectureNotesToModels

SpecLectures == InitLectures /\ [][NextLectures]_vars

(***************************************************************************)
(* The notes specification: a LectureNotes is built and rendered.          *)
(***************************************************************************)
NotesTitle == <<"T">>

SubTitle == <<"t">>

\* the items without sub-items
LeafItems == {PyStr(StrA), PyStr(StrB), Equation(<<"e">>), PyInt(7)}

RECURSIVE ItemsOfSize(_)
RECURSIVE ItemSeqsOfSize(_)

\* the items made of exactly s nodes: a leaf, or a list or a nested
\* LectureNotes around s - 1 nodes
ItemsOfSize(s) ==
    (IF s = 1 THEN LeafItems ELSE {})
    \cup {PyList(f) : f \in ItemSeqsOfSize(s - 1)}
    \cup {LectureNotes(f, SubTitle) : f \in ItemSeqsOfSize(s - 1)}

\* the sequences of items made of exactly n nodes
ItemSeqsOfSize(n) ==
    IF n = 0 THEN {<< >>}
    ELSE UNION {LET rests == ItemSeqsOfSize(n - s)
                IN  {<<item>> \o rest : item \in ItemsOfSize(s), rest \in rests} :
                s \in 1..n}

InitNotes ==
    /\ group = EmptyGroup
    /\ \E n \in 0..MaxNodes :
           \E items \in ItemSeqsOfSize(n) : notes = LectureNotes(items, NotesTitle)
    /\ resource = ResA
    /\ result = NoCall

\* notes.to_rst()
CallToRst ==
    /\ result' = [op |-> "LectureNotes.to_rst", out |-> LectureNotes_to_rst(notes)]
    /\ UNCHANGED <<group, notes, resource>>

\* notes.to_models(top_model=top_model), top_model being pl.Section or None
CallToModels ==
    /\ \E top_model \in {Some(Section), None} :
           result' = [op |-> "LectureNotes.to_models", top_model |-> top_model,
                      out |-> Return(LectureNotes_to_models(notes, top_model,
                                                            UnorderedList))]
    /\ UNCHANGED <<group, notes, resource>>

\* to_rst_bullet_content(item), for an item of the notes
CallBulletContent ==
    /\ \E i \in 1..Len(notes.items) :
           result' = [op |-> "to_rst_bullet_content", item |-> notes.items[i],
                      out |-> to_rst_bullet_content(notes.items[i])]
    /\ UNCHANGED <<group, notes, resource>>

NextNotes == CallToRst \/ CallToModels \/ CallBulletContent

SpecNotes == InitNotes /\ [][NextNotes]_vars

(***************************************************************************)
(* The resource specification: a LectureResource is built, its properties  *)
(* are read and it is rendered.                                            *)
(***************************************************************************)
\* datetime values: 5 January 00:07 and 23 November 15:30
Updates ==
    {[month |-> 1, day |-> 5, hour |-> 0, minute |-> 7],
     [month |-> 11, day |-> 23, hour |-> 15, minute |-> 30]}

InitResource ==
    /\ group = EmptyGroup
    /\ notes = EmptyNotes
    /\ \E name \in {StrA, StrB},
          static_url \in {None, Some(<< >>), Some(StrX)},
          external_url \in {None, Some(<< >>), Some(StrU)},
          updated \in {None} \cup {Some(dt) : dt \in Updates},
          index \in {None, Some(0), Some(1), Some(12)},
          datetime_fmt \in {DefaultDatetimeFmt, <<"%", "M">>} :
           resource = LectureResource(name, static_url, external_url, updated,
                                      index, datetime_fmt)
    /\ result = NoCall

\* resource.url
ReadUrl ==
    /\ result' = [op |-> "LectureResource.url",
                  out |-> Return(LectureResource_url(resource))]
    /\ UNCHANGED <<group, notes, resource>>

\* resource.display_name
ReadDisplayName ==
    /\ result' = [op |-> "LectureResource.display_name",
                  out |-> Return(LectureResource_display_name(resource))]
    /\ UNCHANGED <<group, notes, resource>>

\* resource.to_rst()
CallResourceToRst ==
    /\ result' = [op |-> "LectureResource.to_rst",
                  out |-> LectureResource_to_rst(resource)]
    /\ UNCHANGED <<group, notes, resource>>

\* the objects a resource is compared with: itself, resources that differ from
\* it in the fields __eq__ ignores, resources that differ in one compared
\* field, two fixed resources, and objects that lack some compared attribute
ComparedWith(r) ==
    {r,
     [r EXCEPT !.index = Some(7)],
     [r EXCEPT !.updated = Some([month |-> 3, day |-> 1, hour |-> 9, minute |-> 0]),
               !.datetime_fmt = <<"%", "p">>],
     [r EXCEPT !.name = <<"z">>],
     [r EXCEPT !.static_url = Some(<<"z">>)],
     [r EXCEPT !.external_url = Some(<<"z">>)],
     ResA, ResB,
     Equation(<<"e">>),
     [cls |-> "object", name |-> r.name],
     [cls |-> "object", name |-> r.name, static_url |-> r.static_url]}

\* resource == other
CallEq ==
    /\ \E other \in ComparedWith(resource) :
           result' = [op |-> "LectureResource.__eq__", other |-> other,
                      out |-> Return(LectureResource_eq(resource, other))]
    /\ UNCHANGED <<group, notes, resource>>

NextResource == ReadUrl \/ ReadDisplayName \/ CallResourceToRst \/ CallEq

SpecResource == InitResource /\ [][NextResource]_vars

(***************************************************************************)
(* Claims about LectureGroup.resources                                     *)
(***************************************************************************)
\* equality of two resources as the claims state it: same name, static_url
\* and external_url
SameKey(a, b) ==
    <<a.name, a.static_url, a.external_url>> = <<b.name, b.static_url, b.external_url>>

ResourcesRead == result.op = "LectureGroup.resources"

\* every resource object the group was built from
InputResources(g) ==
    {g.global_resources[i] : i \in 1..Len(g.global_resources)} \cup
    UNION {IF IsNone(g.lectures[l].resources) THEN {}
           ELSE {Value(g.lectures[l].resources)[i] :
                     i \in 1..Len(Value(g.lectures[l].resources))} :
           l \in 1..Len(g.lectures)}

\* C1: the list returned by LectureGroup.resources contains no two entries
\* that are equal (same name, static_url and external_url), for every group.
C1_NoEqualEntries ==
    ResourcesRead =>
        \A i, j \in 1..Len(result.out.val) :
            i < j => ~SameKey(result.out.val[i], result.out.val[j])

\* C2: LectureGroup.resources loses and invents nothing: every input resource
\* is equal to some entry of the result, every entry of the result is one of
\* the input resource objects, and lectures whose resources are None or empty
\* contribute nothing.
C2_LosesAndInventsNothing ==
    ResourcesRead =>
        /\ \A r \in InputResources(group) :
               \E k \in 1..Len(result.out.val) : SameKey(result.out.val[k], r)
        /\ \A k \in 1..Len(result.out.val) :
               result.out.val[k] \in InputResources(group)
        /\ (\A l \in 1..Len(group.lectures) :
                \/ IsNone(group.lectures[l].resources)
                \/ Value(group.lectures[l].resources) = << >>)
           => result.out.val = group.global_resources

\* C2 witness: a group with a lecture without resources, a lecture whose
\* resources are partly new and partly equal to earlier ones
C2_Witness ==
    /\ ResourcesRead
    /\ \E l \in 1..Len(group.lectures) : IsNone(group.lectures[l].resources)
    /\ Len(result.out.val) > Len(group.global_resources)
    /\ group.global_resources # << >>
    /\ \E r \in InputResources(group) :
           \A k \in 1..Len(result.out.val) : result.out.val[k] # r

(***************************************************************************)
(* Claims about LectureNotes.to_rst, to_rst_bullet_content and to_models   *)
(***************************************************************************)
ToRstCalled == result.op = "LectureNotes.to_rst"

ToModelsCalled == result.op = "LectureNotes.to_models"

BulletContentCalled == result.op = "to_rst_bullet_content"

RECURSIVE OnlyStringsAndNotes(_)
\* a tree of strings and nested LectureNotes
OnlyStringsAndNotes(n) ==
    \A i \in 1..Len(n.items) :
        \/ IsStr(n.items[i])
        \/ IsLectureNotes(n.items[i]) /\ OnlyStringsAndNotes(n.items[i])

RECURSIVE Leaves(_)
\* the texts of the string leaves of such a tree, in depth-first order
Leaves(n) ==
    Concat([i \in 1..Len(n.items) |->
                IF IsStr(n.items[i]) THEN <<n.items[i].val>> ELSE Leaves(n.items[i])])

\* the position of the first newline of text, 0 when it has none
FirstNewline(text) ==
    IF \E k \in 1..Len(text) : text[k] = "\n"
    THEN CHOOSE k \in 1..Len(text) :
             text[k] = "\n" /\ \A j \in 1..(k - 1) : text[j] # "\n"
    ELSE 0

RECURSIVE SplitLines(_)
\* text.split("\n")
SplitLines(text) ==
    IF FirstNewline(text) = 0 THEN <<text>>
    ELSE <<SubSeq(text, 1, FirstNewline(text) - 1)>>
         \o SplitLines(SubSeq(text, FirstNewline(text) + 1, Len(text)))

NonEmpty(line) == line # << >>

NonEmptyLines(text) == SelectSeq(SplitLines(text), NonEmpty)

\* C3: LectureNotes.to_rst renders a tree of strings and nested LectureNotes
\* as flat bulleted text: the non-empty lines of the output are, in
\* depth-first order, one line "- <leaf>" for each string leaf.
C3_FlatBullets ==
    (ToRstCalled /\ OnlyStringsAndNotes(notes)) =>
        /\ result.out.ok
        /\ NonEmptyLines(result.out.val) =
               [i \in 1..Len(Leaves(notes)) |-> <<"-", " ">> \o Leaves(notes)[i]]

\* the list of final items of the to_models call
FinalItems ==
    IF IsNone(result.top_model) THEN result.out.val ELSE result.out.val.contents

\* a sub_model group of strings: sub_model(current_str_items)
IsGroup(x) == x.cls = UnorderedList /\ IsNone(x.title)

\* a converted nested note: sub_model(final_items, title=title)
IsConverted(x) == x.cls = UnorderedList /\ ~IsNone(x.title)

\* an item that belongs in a group: a str or the value of a to_pyexlatex()
IsStringItem(x) == IsStr(x) \/ x.cls = "pl.Equation"

RECURSIVE RunsMaximal(_)
RunsMaximal(items) ==
    \A i \in 1..Len(items) :
        /\ IsGroup(items[i]) =>
               /\ items[i].contents # << >>
               /\ \A k \in 1..Len(items[i].contents) :
                      IsStringItem(items[i].contents[k])
               /\ i < Len(items) => ~IsGroup(items[i + 1])
        /\ ~IsGroup(items[i]) => ~IsStringItem(items[i])
        /\ IsConverted(items[i]) => RunsMaximal(items[i].contents)

\* C4: to_models groups items into maximal runs: every sub_model group of the
\* final items (at every nesting level) is non-empty and holds strings and
\* to_pyexlatex values only, no two groups are adjacent and no such item
\* stays outside a group.
C4_MaximalRuns == ToModelsCalled => RunsMaximal(FinalItems)

\* C4 witness: two groups separated by a converted nested note
C4_Witness ==
    /\ ToModelsCalled
    /\ \E i \in 1..(Len(FinalItems) - 2) :
           /\ IsGroup(FinalItems[i])
           /\ IsConverted(FinalItems[i + 1])
           /\ IsGroup(FinalItems[i + 2])

\* the final items with each group replaced by its members
Flattened(items) ==
    Concat([i \in 1..Len(items) |->
                IF IsGroup(items[i]) THEN items[i].contents ELSE <<items[i]>>])

\* what the claim puts in the place of one item
Converted(item) ==
    IF IsLectureNotes(item)
    THEN LectureNotes_to_models(item, Some(UnorderedList), UnorderedList)
    ELSE IF HasToPyexlatex(item) THEN to_pyexlatex(item)
    ELSE item

\* C5: to_models preserves content and order: the final items, with each group
\* replaced by its members, are the original items in order, a nested
\* LectureNotes replaced by its to_models result and a to_pyexlatex-capable
\* object by its to_pyexlatex() value.
C5_PreservesContent ==
    ToModelsCalled =>
        Flattened(FinalItems) =
            [i \in 1..Len(notes.items) |-> Converted(notes.items[i])]

\* C5 witness: a run of strings that ends the items, after a nested note
C5_Witness ==
    /\ ToModelsCalled
    /\ Len(notes.items) >= 3
    /\ IsStr(notes.items[Len(notes.items)])
    /\ \E i \in 1..Len(notes.items) : IsLectureNotes(notes.items[i])
    /\ \E i \in 1..Len(notes.items) : HasToPyexlatex(notes.items[i])

RECURSIVE Supported(_)
\* an item to_rst_bullet_content serializes: a str, a list or tuple of such
\* items, an object exposing to_rst (whose own items are such items)
Supported(item) ==
    \/ IsStr(item)
    \/ IsListOrTuple(item) /\ \A i \in 1..Len(item.items) : Supported(item.items[i])
    \/ item.cls = "Equation"
    \/ IsLectureNotes(item) /\ \A i \in 1..Len(item.items) : Supported(item.items[i])

RECURSIVE BulletOf(_)
\* the one string of a supported item, as C6 states it
BulletOf(item) ==
    IF IsStr(item) THEN item.val
    ELSE IF IsListOrTuple(item)
         THEN Join(<<" ">>, [i \in 1..Len(item.items) |-> BulletOf(item.items[i])])
    ELSE ItemToRst(item).val

\* C6: to_rst_bullet_content returns a list of exactly one string for every
\* supported item (a str itself, a list the single-space join of its
\* sub-items' contents, an object its to_rst() value), and LectureNotes.to_rst
\* emits one bullet entry per top-level item, in item order.
C6_OneStringPerItem ==
    /\ (BulletContentCalled /\ Supported(result.item)) =>
           /\ result.out.ok
           /\ result.out.val = <<BulletOf(result.item)>>
    /\ (ToRstCalled /\ \A i \in 1..Len(notes.items) : Supported(notes.items[i])) =>
           /\ result.out.ok
           /\ result.out.val =
                  <<"\n">>
                  \o Join(<<"\n">>, [i \in 1..Len(notes.items) |->
                                         <<"-", " ">> \o BulletOf(notes.items[i])])
                  \o <<"\n">>

\* C6 witness: the content of a list that holds a string and a list
C6_Witness ==
    /\ BulletContentCalled
    /\ IsListOrTuple(result.item)
    /\ Len(result.item.items) >= 2
    /\ \E i \in 1..Len(result.item.items) : IsListOrTuple(result.item.items[i])
    /\ \E i \in 1..Len(result.item.items) : IsStr(result.item.items[i])
    /\ result.out.ok

\* C7: an item that is no str, no list or tuple and exposes no to_rst makes
\* to_rst_bullet_content raise ValueError at any depth, and LectureNotes.to_rst
\* on notes that contain one raises it too and returns nothing.
C7_UnsupportedRaises ==
    /\ (BulletContentCalled /\ ~Supported(result.item)) =>
           result.out = Raise("ValueError")
    /\ (ToRstCalled /\ \E i \in 1..Len(notes.items) : ~Supported(notes.items[i])) =>
           result.out = Raise("ValueError")

\* C7 witness: to_rst on notes that start with a string and then hold a list
\* with the unsupported item two lists deep
C7_Witness ==
    /\ ToRstCalled
    /\ Len(notes.items) >= 2
    /\ IsStr(notes.items[1])
    /\ \E i \in 2..Len(notes.items) :
           /\ IsListOrTuple(notes.items[i])
           /\ \E j \in 1..Len(notes.items[i].items) :
                  /\ IsListOrTuple(notes.items[i].items[j])
                  /\ \E k \in 1..Len(notes.items[i].items[j].items) :
                         notes.items[i].items[j].items[k].cls = "int"
    /\ ~result.out.ok

(***************************************************************************)
(* Claims about LectureResource                                            *)
(***************************************************************************)
UrlRead == result.op = "LectureResource.url"

DisplayNameRead == result.op = "LectureResource.display_name"

ResourceToRstCalled == result.op = "LectureResource.to_rst"

StartsWith(text, prefix) ==
    Len(prefix) <= Len(text) /\ SubSeq(text, 1, Len(prefix)) = prefix

EndsWith(text, suffix) ==
    /\ Len(suffix) <= Len(text)
    /\ SubSeq(text, Len(text) - Len(suffix) + 1, Len(text)) = suffix

HasSubstring(text, part) ==
    \E k \in 0..(Len(text) - Len(part)) : SubSeq(text, k + 1, k + Len(part)) = part

\* C8: LectureResource.url is "/_static/" followed by static_url whenever
\* static_url is not None, external_url unchanged when static_url is None and
\* external_url is not, and None exactly when both are None.
C8_UrlPrecedence ==
    UrlRead =>
        /\ ~IsNone(resource.static_url) =>
               result.out.val =
                   Some(<<"/", "_", "s", "t", "a", "t", "i", "c", "/">>
                        \o Value(resource.static_url))
        /\ (IsNone(resource.static_url) /\ ~IsNone(resource.external_url)) =>
               result.out.val = Some(Value(resource.external_url))
        /\ IsNone(result.out.val) <=>
               (IsNone(resource.static_url) /\ IsNone(resource.external_url))

\* C8 witness: url read on a resource that has both links
C8_Witness ==
    /\ UrlRead
    /\ ~IsNone(resource.static_url)
    /\ ~IsNone(resource.external_url)

\* C9: LectureResource.to_rst raises ValueError exactly when url is None;
\* otherwise it emits a :download: bullet when static_url is not None and an
\* external-hyperlink bullet when only external_url is set, and the link target
\* in the output is the value of url.
C9_ToRstAgreesWithUrl ==
    ResourceToRstCalled =>
        /\ ~result.out.ok <=> IsNone(LectureResource_url(resource))
        /\ ~result.out.ok => result.out = Raise("ValueError")
        /\ (result.out.ok /\ ~IsNone(resource.static_url)) =>
               StartsWith(result.out.val,
                   <<"\n", "-", " ", ":", "d", "o", "w", "n", "l", "o", "a", "d", ":">>
                   \o <<Backtick>> \o LectureResource_display_name(resource)
                   \o <<" ", "<">> \o Value(LectureResource_url(resource))
                   \o <<">", Backtick, "\n">>)
        /\ (result.out.ok /\ IsNone(resource.static_url)) =>
               StartsWith(result.out.val,
                   <<"\n", "-", " ", Backtick>>
                   \o LectureResource_display_name(resource)
                   \o <<" ", "<">> \o Value(LectureResource_url(resource))
                   \o <<">", Backtick, "_", "\n">>)

\* C9 witness: an external-hyperlink bullet has been emitted
C9_Witness ==
    /\ ResourceToRstCalled
    /\ IsNone(resource.static_url)
    /\ ~IsNone(resource.external_url)
    /\ result.out.ok

\* the index and one space, and the update note, as C10 states them
IndexPrefix(r) == IntStr(Value(r.index)) \o <<" ">>

UpdateNote(r) ==
    <<" ", "(", "u", "p", "d", "a", "t", "e", "d", " ">>
    \o strftime(Value(r.updated), r.datetime_fmt) \o <<")">>

\* C10: LectureResource.display_name contains name, is prefixed by the index
\* and one space if and only if index is not None (index 0 is shown), is
\* suffixed by " (updated <formatted time>)" if and only if updated is not
\* None, and equals name when index and updated are both None.
C10_DisplayName ==
    DisplayNameRead =>
        /\ HasSubstring(result.out.val, resource.name)
        /\ ~IsNone(resource.index) =>
               StartsWith(result.out.val, IndexPrefix(resource) \o resource.name)
        /\ IsNone(resource.index) => StartsWith(result.out.val, resource.name)
        /\ ~IsNone(resource.updated) =>
               EndsWith(result.out.val, resource.name \o UpdateNote(resource))
        /\ IsNone(resource.updated) => EndsWith(result.out.val, resource.name)
        /\ Len(result.out.val) =
               (IF IsNone(resource.index) THEN 0 ELSE Len(IndexPrefix(resource)))
               + Len(resource.name)
               + (IF IsNone(resource.updated) THEN 0 ELSE Len(UpdateNote(resource)))
        /\ (IsNone(resource.index) /\ IsNone(resource.updated)) =>
               result.out.val = resource.name

\* C10 witness: the display name of a resource with index 0 and an update time
C10_Witness ==
    /\ DisplayNameRead
    /\ resource.index = Some(0)
    /\ ~IsNone(resource.updated)

(***************************************************************************)
(* Claims about Lecture and LectureGroup                                   *)
(***************************************************************************)
ForWeekCalled == result.op = "LectureGroup.lectures_for_week"

\* the positions of the lectures of week w
PositionsOfWeek(lectures, w) == {i \in 1..Len(lectures) : lectures[i].week_covered = w}

\* the k-th smallest member of a set of positions
KthPosition(positions, k) ==
    CHOOSE i \in positions : Cardinality({j \in positions : j < i}) = k - 1

\* C11: lectures_for_week(w) returns exactly the lectures whose week_covered
\* equals w, in their original order and with their multiplicity; a week
\* without a lecture yields the empty list, and each lecture belongs to the
\* answer of exactly one week.
C11_LecturesForWeek ==
    ForWeekCalled =>
        LET positions == PositionsOfWeek(group.lectures, result.week_num)
        IN  /\ Len(result.out.val) = Cardinality(positions)
            /\ \A k \in 1..Len(result.out.val) :
                   result.out.val[k] = group.lectures[KthPosition(positions, k)]
            /\ positions = {} => result.out.val = << >>
            /\ \A i \in 1..Len(group.lectures) :
                   Cardinality({w \in WeeksAsked :
                       \E k \in 1..Len(LectureGroup_lectures_for_week(group, w)) :
                           LectureGroup_lectures_for_week(group, w)[k] =
                               group.lectures[i]}) = 1

\* C11 witness: a week that selects the second of two different lectures
C11_Witness ==
    /\ ForWeekCalled
    /\ Len(group.lectures) = 2
    /\ group.lectures[1].week_covered # result.week_num
    /\ result.out.val = <<group.lectures[2]>>

GetLectureGroupsCalled == result.op = "get_lecture_groups"

InList(list, x) == \E k \in 1..Len(list) : list[k] = x

\* C12: get_lecture_groups honours each flag independently: the result holds
\* the projects group if and only if include_projects, the lab-exercises
\* group if and only if include_labs; the six base groups come first in
\* their fixed order, then projects, then lab exercises, when included.
C12_FlagsIndependent ==
    GetLectureGroupsCalled =>
        /\ InList(result.out.val, GroupFrom("get_projects_lecture"))
               <=> result.include_projects
        /\ InList(result.out.val, GroupFrom("get_lab_exercises_lecture"))
               <=> result.include_labs
        /\ result.out.val =
               BaseLectureGroups
               \o (IF result.include_projects
                   THEN <<GroupFrom("get_projects_lecture")>> ELSE << >>)
               \o (IF result.include_labs
                   THEN <<GroupFrom("get_lab_exercises_lecture")>> ELSE << >>)

RECURSIVE ScannedResources(_)
\* the resources of the lectures in scanning order: lectures in group order,
\* each lecture's resources in list order
ScannedResources(lectures) ==
    IF lectures = << >> THEN << >>
    ELSE (IF IsNone(Head(lectures).resources) THEN << >>
          ELSE Value(Head(lectures).resources))
         \o ScannedResources(Tail(lectures))

\* the entries of scanned that are equal to no entry of before and to no
\* earlier entry of scanned
FirstMet(before, scanned) ==
    LET Met(k) ==
            /\ \A i \in 1..Len(before) : ~SameKey(before[i], scanned[k])
            /\ \A j \in 1..(k - 1) : ~SameKey(scanned[j], scanned[k])
        kept == {k \in 1..Len(scanned) : Met(k)}
    IN  [n \in 1..Cardinality(kept) |-> scanned[KthPosition(kept, n)]]

\* C13: LectureGroup.resources is ordered by first occurrence: it starts with
\* global_resources in their given order, followed by the lecture resources in
\* the order in which they are first met; of equal resources the object met
\* first is the one in the result.
C13_FirstOccurrenceOrder ==
    ResourcesRead =>
        result.out.val =
            group.global_resources
            \o FirstMet(group.global_resources, ScannedResources(group.lectures))

\* C13 witness: a lecture resource is equal to an earlier, different object,
\* and a new resource follows it
C13_Witness ==
    /\ ResourcesRead
    /\ Len(result.out.val) >= 2
    /\ Len(result.out.val) > Len(group.global_resources)
    /\ \E l \in 1..Len(group.lectures) :
           /\ ~IsNone(group.lectures[l].resources)
           /\ \E i \in 1..Len(Value(group.lectures[l].resources)) :
                  \E k \in 1..Len(result.out.val) :
                      /\ SameKey(result.out.val[k], Value(group.lectures[l].resources)[i])
                      /\ result.out.val[k] # Value(group.lectures[l].resources)[i]

(***************************************************************************)
(* Claims about LectureResource.__eq__                                     *)
(***************************************************************************)
EqCalled == result.op = "LectureResource.__eq__"

IsResource(x) == x.cls = "LectureResource"

\* the LectureResource values a resource is compared with
ResourcesComparedWith(r) == {x \in ComparedWith(r) : IsResource(x)}

\* C14: LectureResource equality depends only on (name, static_url,
\* external_url): resources that agree on the three are equal whatever their
\* updated, index and datetime_fmt, resources that differ in one of them are
\* unequal, an object lacking one of the attributes compares False (nothing is
\* raised), and on resources the relation is reflexive, symmetric, transitive.
C14_EqualityByKey ==
    EqCalled =>
        /\ result.out.ok
        /\ IsResource(result.other) =>
               /\ result.out.val <=> SameKey(resource, result.other)
               /\ result.other = resource => result.out.val
               /\ result.out.val <=> LectureResource_eq(result.other, resource)
               /\ \A third \in ResourcesComparedWith(result.other) :
                      (result.out.val /\ LectureResource_eq(result.other, third))
                          => LectureResource_eq(resource, third)
        /\ ~IsResource(result.other) => ~result.out.val

\* C14 witness: a resource compared with an equal one that has another index
C14_Witness ==
    /\ EqCalled
    /\ IsResource(result.other)
    /\ result.other.index # resource.index
    /\ result.out.val

LectureToRstCalled == result.op = "Lecture.to_rst"

\* the lecture a call of Lecture.to_rst was made on
RenderedLecture == group.lectures[result.lecture]

\* the rendered resources of a lecture in list order: each followed by the
\* newline that separates it from the next or ends the section
RECURSIVE ResourceLines(_)
ResourceLines(resources) ==
    IF resources = << >> THEN << >>
    ELSE LectureResource_to_rst(Head(resources)).val \o <<"\n">>
         \o ResourceLines(Tail(resources))

\* the four parts of a lecture's text as the claim gives them
TitlePart(lecture) == header_rst(lecture.title, 3)

VideoPart(lecture) ==
    IF lecture.youtube_id # None
    THEN YoutubeHead \o Value(lecture.youtube_id) \o YoutubeTail
    ELSE << >>

NotesPart(lecture) ==
    IF lecture.notes # None
    THEN header_rst(NotesWord, 4) \o LectureNotes_to_rst(Value(lecture.notes)).val
    ELSE << >>

ResourcesPart(lecture) ==
    IF lecture.resources # None /\ Value(lecture.resources) # << >>
    THEN header_rst(ResourcesWord, 4) \o <<"\n">>
         \o ResourceLines(Value(lecture.resources))
    ELSE << >>

\* C15: Lecture.to_rst emits title header, video block, Notes section and
\* Resources section in this order; the video block is there if and only if
\* youtube_id is not None (an empty id still gives a block), the Notes section
\* if and only if notes is not None, the Resources section if and only if
\* resources is a non-empty sequence, its resources rendered in list order.
C15_PartsInOrder ==
    LectureToRstCalled =>
        /\ result.out.ok
        /\ result.out.val = TitlePart(RenderedLecture) \o VideoPart(RenderedLecture)
                            \o NotesPart(RenderedLecture)
                            \o ResourcesPart(RenderedLecture)
        /\ VideoPart(RenderedLecture) # << >> <=> RenderedLecture.youtube_id # None
        /\ NotesPart(RenderedLecture) # << >> <=> RenderedLecture.notes # None

\* C15 witness: a lecture with an empty youtube id, notes and two resources
\* is rendered
C15_Witness ==
    /\ LectureToRstCalled
    /\ result.out.ok
    /\ RenderedLecture.youtube_id = Some(<< >>)
    /\ RenderedLecture.notes # None
    /\ RenderedLecture.resources # None
    /\ Len(Value(RenderedLecture.resources)) = 2

GroupToModelsCalled == result.op = "LectureGroup.to_models"

\* C16: LectureGroup.to_models returns a list with exactly one document model
\* per lecture of the group, in lecture order, each being that lecture's
\* notes.to_models(top_model, sub_model), for every lecture the Lecture class
\* admits, one built with the default notes=None included.
C16_OneModelPerLecture ==
    GroupToModelsCalled =>
        /\ result.out.ok
        /\ Len(result.out.val) = Len(group.lectures)
        /\ \A i \in 1..Len(group.lectures) :
               group.lectures[i].notes # None =>
                   result.out.val[i] =
                       LectureNotes_to_models(Value(group.lectures[i].notes),
                                              Some(Section), UnorderedList)

RECURSIVE LeafDepths(_, _)
\* the string leaves of a tree of strings and nested notes, in depth-first
\* order, each with its nesting depth, the items of the tree being at depth d
LeafDepths(n, d) ==
    Concat([i \in 1..Len(n.items) |->
                IF IsStr(n.items[i]) THEN <<[text |-> n.items[i].val, depth |-> d]>>
                ELSE LeafDepths(n.items[i], d + 1)])

RECURSIVE Enclosures(_, _)
\* the strings of a list of built items, in order, each with the number of
\* sub_model containers around it, the list itself being inside c of them
Enclosures(items, c) ==
    Concat([i \in 1..Len(items) |->
                IF IsStr(items[i]) THEN <<[text |-> items[i].val, containers |-> c]>>
                ELSE Enclosures(items[i].contents,
                                IF items[i].cls = UnorderedList THEN c + 1 ELSE c)])

RECURSIVE NestedBuiltAsSubModel(_, _)
\* every nested note among the items is built as a sub_model that carries
\* the title of that note, and so are the notes nested in it
NestedBuiltAsSubModel(items, final_items) ==
    LET flat == Flattened(final_items)
    IN  /\ Len(flat) = Len(items)
        /\ \A i \in 1..Len(items) :
               IsLectureNotes(items[i]) =>
                   /\ flat[i].cls = UnorderedList
                   /\ flat[i].title = Some(items[i].title)
                   /\ NestedBuiltAsSubModel(items[i].items, flat[i].contents)

\* C17: in LectureNotes.to_models a nested LectureNotes is built with
\* sub_model as its top model and carries its own title, the recursion ends
\* on every finite tree, a string leaf at nesting depth d (top level d = 0) is
\* enclosed in exactly d + 1 sub_model containers below the outermost
\* top_model, and with top_model None the call returns the bare list of final
\* items, not a wrapped model.
C17_NestedInSubModels ==
    (ToModelsCalled /\ OnlyStringsAndNotes(notes)) =>
        /\ result.out.ok
        /\ NestedBuiltAsSubModel(notes.items, FinalItems)
        /\ Enclosures(FinalItems, 0) =
               [k \in 1..Len(LeafDepths(notes, 0)) |->
                   [text |-> LeafDepths(notes, 0)[k].text,
                    containers |-> LeafDepths(notes, 0)[k].depth + 1]]
        /\ ~IsNone(result.top_model) =>
               /\ result.out.val.cls = Value(result.top_model)
               /\ result.out.val.title = Some(notes.title)
        /\ IsNone(result.top_model) =>
               result.out.val =
                   LectureNotes_to_models(notes, Some(Section), UnorderedList).contents

\* C17 witness: notes with a string two levels down and a string at the top
\* are built without a top model
C17_Witness ==
    /\ ToModelsCalled
    /\ OnlyStringsAndNotes(notes)
    /\ IsNone(result.top_model)
    /\ \E k \in 1..Len(LeafDepths(notes, 0)) : LeafDepths(notes, 0)[k].depth = 2
    /\ \E k \in 1..Len(LeafDepths(notes, 0)) : LeafDepths(notes, 0)[k].depth = 0

\* the calls C18 is about
ReadingAndRendering ==
    {"LectureGroup.resources", "LectureGroup.to_rst", "Lecture.to_rst",
     "LectureNotes.to_rst", "LectureNotes.to_models"}

\* two calls are the same call: the same operation on the same arguments
SameCall(first, second) ==
    [first EXCEPT !.out = NoCall.out] = [second EXCEPT !.out = NoCall.out]

\* a step that reads the resources or renders leaves the group as it was, and
\* returns what the call before it returned if that was the same call
LeavesGroupUnchanged ==
    result'.op \in ReadingAndRendering =>
        /\ group' = group
        /\ SameCall(result, result') => result'.out = result.out

====
